---- MODULE Spec2Model ----
(***************************************************************************)
(* ImageSetsPartitioner (niftynet/io/image_sets_partitioner.py): a table   *)
(* of subject ids and file names per input section (_file_list), a table   *)
(* subject_id -> phase (_partition_ids) read from / written to the split   *)
(* file, and the queries number_of_subjects and get_file_list.             *)
(*                                                                         *)
(* A pandas table is a sequence of rows [idx, cols]: idx is the row's      *)
(* index label, cols maps a column name to the cell.  Subject ids and file *)
(* paths are naturals (a subject id n stands for the n-th id in string     *)
(* order).  A csv file is a sequence of lines <<field1, field2>>; a file  *)
(* with no line is one pandas cannot parse (EmptyDataError).               *)
(*                                                                         *)
(* One split file path is modelled (data_split_file names it in every      *)
(* call).  A section of data_param is its name; its csv_file is the entry  *)
(* of csv_files under that name, as the file matcher or an earlier run     *)
(* left it.  Fractions are numerators over RatioDen.                       *)
(***************************************************************************)
EXTENDS Integers, Sequences, FiniteSets, TLC

VARIABLES csv_files,      \* the section csv caches on disk: section -> file
          split_file,     \* the file at data_split_file
          data_param,     \* self.data_param: the section names, in dict order
          ratios,         \* self.ratios
          new_partition,  \* self.new_partition
          file_list,      \* self._file_list
          partition_ids,  \* self._partition_ids
          ret,            \* the call that has just returned, with its outcome
          callers         \* the query each concurrent caller is in, and where

vars == <<csv_files, split_file, data_param, ratios, new_partition,
          file_list, partition_ids, ret, callers>>

-----------------------------------------------------------------------------
(* Bounds *)

NumSubjects == 3
MaxRows == 2
MaxTotal == 5
RatioDen == 4
NumCallers == 2

-----------------------------------------------------------------------------
(* Module constants of the source *)

COLUMN_UNIQ_ID == "subject_id"
COLUMN_PHASE == "phase"
TRAIN == "train"
VALID == "validation"
INFER == "inference"
ALL == "all"
SUPPORTED_PHASES == {TRAIN, VALID, INFER, ALL}

Sections == {"T1", "T2"}

-----------------------------------------------------------------------------
(* Python None / absent files, and tables *)

NoneTable == [none |-> TRUE, columns |-> {}, rows |-> <<>>]
Table(columns, rows) == [none |-> FALSE, columns |-> columns, rows |-> rows]

NoFile == [exists |-> FALSE, lines |-> <<>>]
File(lines) == [exists |-> TRUE, lines |-> lines]

NoneRatios == [kind |-> "None", v |-> 0, i |-> 0]
BadRatios == [kind |-> "bad", v |-> 0, i |-> 0]
Ratios(v, i) == [kind |-> "pair", v |-> v, i |-> i]

Min(a, b) == IF a < b THEN a ELSE b
Max(a, b) == IF a > b THEN a ELSE b

Column(rows, name) == [k \in 1..Len(rows) |-> rows[k].cols[name]]
SubjectIds(rows) == Column(rows, COLUMN_UNIQ_ID)
Range(s) == {s[k] : k \in 1..Len(s)}

RECURSIVE Flatten(_)
Flatten(ss) == IF ss = <<>> THEN <<>> ELSE Head(ss) \o Flatten(Tail(ss))

\* a fresh RangeIndex 0..n-1, as read_csv and pandas.merge give their result
ResetIndex(rows) == [k \in 1..Len(rows) |-> [rows[k] EXCEPT !.idx = k - 1]]

\* read_csv without header=None: the first line is taken as the header
ReadCsvHeaderInferred(file, name) ==
    [k \in 1..(Len(file.lines) - 1) |->
        [idx |-> k - 1,
         cols |-> (COLUMN_UNIQ_ID :> file.lines[k + 1][1]) @@ (name :> file.lines[k + 1][2])]]

\* pandas.read_csv(file, header=None, names=[COLUMN_UNIQ_ID, name]) of a
\* file that has at least one line
ReadCsv(file, name) ==
    [k \in 1..Len(file.lines) |->
        [idx |-> k - 1,
         cols |-> (COLUMN_UNIQ_ID :> file.lines[k][1]) @@ (name :> file.lines[k][2])]]

\* pandas.merge(left, right, on=COLUMN_UNIQ_ID): the inner join, in the order
\* of the left keys; a key listed several times gives every pairing
PandasMerge(left, right) ==
    LET Matches(l) == SelectSeq(right,
                         LAMBDA r: r.cols[COLUMN_UNIQ_ID] = l.cols[COLUMN_UNIQ_ID])
        Pair(l) == [j \in 1..Len(Matches(l)) |->
                       [idx |-> 0, cols |-> l.cols @@ Matches(l)[j].cols]]
    IN  ResetIndex(Flatten([k \in 1..Len(left) |-> Pair(left[k])]))

\* DataFrame.sort_values(COLUMN_UNIQ_ID): the rows by ascending subject id
\* (stable), each row keeping its index label
SortBySubjectId(rows) ==
    Flatten([id \in 1..NumSubjects |->
                SelectSeq(rows, LAMBDA x: x.cols[COLUMN_UNIQ_ID] = id)])

\* DataFrame.sort_index(): the rows by ascending index label (stable)
RECURSIVE SortIndex(_)
SortIndex(rows) ==
    IF rows = <<>> THEN <<>>
    ELSE LET rest == SortIndex(Tail(rows))
             r == Head(rows)
             before == SelectSeq(rest, LAMBDA x: x.idx < r.idx)
             after == SelectSeq(rest, LAMBDA x: x.idx >= r.idx)
         IN  before \o <<r>> \o after

-----------------------------------------------------------------------------
(* Section Table Loader and Section Merger *)

\* grep_files_by_data_section: the section's csv cache as a table
GrepFilesByDataSection(dp, files, modality_name) ==
    IF modality_name \notin Range(dp)
    THEN [error |-> "ValueError", rows |-> <<>>]
    ELSE IF ~files[modality_name].exists
    THEN [error |-> "IOError", rows |-> <<>>]
    ELSE IF files[modality_name].lines = <<>>
    THEN [error |-> "EmptyDataError", rows |-> <<>>]
    ELSE [error |-> "none", rows |-> ReadCsv(files[modality_name], modality_name)]

\* the loop of load_data_sections_by_subject from section k on, and the check
\* that follows it; fl is self._file_list, warned the sections warned about
RECURSIVE MergeSections(_, _, _, _, _)
MergeSections(dp, files, k, fl, warned) ==
    IF k > Len(dp)
    THEN [error |-> IF fl.none \/ Len(fl.rows) = 0 THEN "IOError" ELSE "none",
          file_list |-> fl, warnings |-> warned]
    ELSE LET g == GrepFilesByDataSection(dp, files, dp[k]) IN
         IF g.error # "none"
         THEN [error |-> g.error, file_list |-> fl, warnings |-> warned]
         ELSE IF fl.none
         THEN MergeSections(dp, files, k + 1, Table({COLUMN_UNIQ_ID, dp[k]}, g.rows), warned)
         ELSE LET n_rows == Len(fl.rows)
                  merged == PandasMerge(fl.rows, g.rows)
              IN  MergeSections(dp, files, k + 1, Table(fl.columns \cup {dp[k]}, merged),
                      IF Len(merged) < n_rows THEN Append(warned, dp[k]) ELSE warned)

\* the merge without the test of an empty section list: the loop runs over
\* nothing and the final test finds no table
LoadWithoutSectionsTest(dp, files, fl) ==
    MergeSections(dp, files, 1, NoneTable, <<>>)

\* load_data_sections_by_subject, entered with self._file_list = fl
LoadDataSectionsBySubject(dp, files, fl) ==
    IF dp = <<>>
    THEN [error |-> "ValueError", file_list |-> fl, warnings |-> <<>>]
    ELSE MergeSections(dp, files, 1, NoneTable, <<>>)

-----------------------------------------------------------------------------
(* Queries *)

\* a count that answers 0 for a phase while there is no partition
NumberOfSubjectsZeroWithoutPartition(fl, pids, phase) ==
    IF fl.none THEN 0
    ELSE IF phase = ALL THEN Len(fl.rows)
    ELSE IF pids.none THEN 0
    ELSE Len(SelectSeq(pids.rows, LAMBDA r: r.cols[COLUMN_PHASE] = phase))

\* number_of_subjects(phase)
NumberOfSubjects(fl, pids, phase) ==
    IF fl.none THEN 0
    ELSE IF phase = ALL \/ pids.none THEN Len(fl.rows)
    ELSE Len(SelectSeq(pids.rows, LAMBDA r: r.cols[COLUMN_PHASE] = phase))

\* table[[names]] / table[name]: the rows with the named columns only
Project(rows, names) ==
    [k \in 1..Len(rows) |->
        [idx |-> rows[k].idx, cols |-> [c \in names |-> rows[k].cols[c]]]]

\* look_up_operations(section_names, set(self._file_list)): is the name a
\* column of the table
KnownColumn(fl, section_names) == section_names \in fl.columns

\* get_file_list without the `if selected.empty` branch: an empty selection
\* goes through the join like any other
GetFileListNoEmptyCheck(fl, pids, phase, section_names) ==
    IF fl.none
    THEN [error |-> "RuntimeError", file_list |-> fl, table |-> NoneTable]
    ELSE IF section_names # "" /\ ~KnownColumn(fl, section_names)
    THEN [error |-> "ValueError", file_list |-> fl, table |-> NoneTable]
    ELSE IF phase = ALL
    THEN LET sorted == SortIndex(fl.rows) IN
         [error |-> "none", file_list |-> Table(fl.columns, sorted),
          table |-> IF section_names # ""
                    THEN Table({section_names}, Project(sorted, {section_names}))
                    ELSE Table(fl.columns, sorted)]
    ELSE IF pids.none
    THEN [error |-> "ValueError", file_list |-> fl, table |-> NoneTable]
    ELSE LET selector == SelectSeq(pids.rows, LAMBDA r: r.cols[COLUMN_PHASE] = phase)
             selected == Project(selector, {COLUMN_UNIQ_ID})
             subset == PandasMerge(fl.rows, selected)
         IN  [error |-> "none", file_list |-> fl,
              table |-> IF section_names # ""
                        THEN Table({section_names}, Project(subset, {section_names}))
                        ELSE Table(fl.columns, subset)]

\* get_file_list(phase, section_names); section_names = "" is None.
\* Gives the error raised, self._file_list after the call and the table
\* returned (NoneTable: the call returned None)
GetFileList(fl, pids, phase, section_names) ==
    IF fl.none
    THEN [error |-> "RuntimeError", file_list |-> fl, table |-> NoneTable]
    ELSE IF section_names # "" /\ ~KnownColumn(fl, section_names)
    THEN [error |-> "ValueError", file_list |-> fl, table |-> NoneTable]
    ELSE IF phase = ALL
    THEN LET sorted == SortIndex(fl.rows) IN
         [error |-> "none", file_list |-> Table(fl.columns, sorted),
          table |-> IF section_names # ""
                    THEN Table({section_names}, Project(sorted, {section_names}))
                    ELSE Table(fl.columns, sorted)]
    ELSE IF pids.none
    THEN [error |-> "ValueError", file_list |-> fl, table |-> NoneTable]
    ELSE LET selector == SelectSeq(pids.rows, LAMBDA r: r.cols[COLUMN_PHASE] = phase)
             selected == Project(selector, {COLUMN_UNIQ_ID})
             subset == PandasMerge(fl.rows, selected)
         IN  IF selected = <<>>
             THEN [error |-> "none", file_list |-> fl, table |-> NoneTable]
             ELSE [error |-> "none", file_list |-> fl,
                   table |-> IF section_names # ""
                             THEN Table({section_names}, Project(subset, {section_names}))
                             ELSE Table(fl.columns, subset)]

\* the parts of the summary string: the total, the section names when the
\* table exists, and the partition block when self.ratios is true
Summary(n_subjects, named, names, partitioning, counts, rt) ==
    [n_subjects |-> n_subjects, named |-> named, names |-> names,
     partitioning |-> partitioning, counts |-> counts, ratios |-> rt]

NoSummary == Summary(0, FALSE, {}, FALSE, <<0, 0, 0>>, NoneRatios)

\* to_string(): the outcomes it can have. Ratios of the wrong shape can be
\* false (an empty tuple), indexable (a string, a longer tuple), too short
\* (IndexError at self.ratios[1]) or not indexable (TypeError)
to_string(fl, pids, rt) ==
    LET n_subjects == NumberOfSubjects(fl, pids, ALL)
        counts == <<NumberOfSubjects(fl, pids, VALID), NumberOfSubjects(fl, pids, INFER),
                    NumberOfSubjects(fl, pids, TRAIN)>>
        with == [error |-> "none",
                 summary |-> Summary(n_subjects, ~fl.none, fl.columns, TRUE, counts, rt)]
        without == [error |-> "none",
                    summary |-> Summary(n_subjects, ~fl.none, fl.columns, FALSE,
                                        <<0, 0, 0>>, rt)]
    IN  IF rt.kind = "None" THEN {without}
        ELSE IF rt.kind = "pair" THEN {with}
        ELSE {with, without,
              [error |-> "IndexError", summary |-> NoSummary],
              [error |-> "TypeError", summary |-> NoSummary]}

-----------------------------------------------------------------------------
(* Partition Splitter *)

\* max(min(1.0, float(f)), 0.0), on numerators over RatioDen
Clamp(q) == Max(Min(RatioDen, q), 0)

\* int(n_total * fraction): rounding down
FloorMul(n_total, q) == (n_total * q) \div RatioDen

\* int(math.ceil(n_total * fraction)), fraction = q / RatioDen
CeilMul(n_total, q) == (n_total * q + RatioDen - 1) \div RatioDen

\* [x] * n: the empty list when n <= 0
Repeat(x, n) == [k \in 1..n |-> x]

\* every count rounded down from its own fraction
SplitPhasesFloor(n_total, rt) ==
    LET valid_fraction == Max(Min(RatioDen, rt.v), 0)
        infer_fraction == Max(Min(RatioDen, rt.i), 0)
        n_valid == (n_total * valid_fraction) \div RatioDen
        n_infer == (n_total * infer_fraction) \div RatioDen
        n_train == (n_total * (RatioDen - valid_fraction - infer_fraction)) \div RatioDen
        phases == Repeat(TRAIN, n_train) \o Repeat(VALID, n_valid) \o Repeat(INFER, n_infer)
    IN  IF Len(phases) > n_total THEN SubSeq(phases, 1, n_total) ELSE phases

\* the truncation keeping the last n_total labels: phases[-n_total:]
SplitPhasesTruncFront(n_total, rt) ==
    LET valid_fraction == Max(Min(RatioDen, rt.v), 0)
        infer_fraction == Max(Min(RatioDen, rt.i), 0)
        n_valid == (n_total * valid_fraction + RatioDen - 1) \div RatioDen
        n_infer == (n_total * infer_fraction + RatioDen - 1) \div RatioDen
        n_train == n_total - n_infer - n_valid
        phases == Repeat(TRAIN, n_train) \o Repeat(VALID, n_valid) \o Repeat(INFER, n_infer)
    IN  IF Len(phases) > n_total
        THEN SubSeq(phases, Len(phases) - n_total + 1, Len(phases))
        ELSE phases

\* lines 258-266: the labels before the shuffle
SplitPhases(n_total, rt) ==
    LET valid_fraction == Clamp(rt.v)
        infer_fraction == Clamp(rt.i)
        n_valid == CeilMul(n_total, valid_fraction)
        n_infer == CeilMul(n_total, infer_fraction)
        n_train == n_total - n_infer - n_valid
        phases == Repeat(TRAIN, n_train) \o Repeat(VALID, n_valid) \o Repeat(INFER, n_infer)
    IN  IF Len(phases) > n_total THEN SubSeq(phases, 1, n_total) ELSE phases

CountOf(s, x) == Cardinality({k \in 1..Len(s) : s[k] = x})

\* random.shuffle(phases): every reordering of the labels
Shuffles(phases) ==
    {s \in [1..Len(phases) -> {TRAIN, VALID, INFER}] :
        \A p \in {TRAIN, VALID, INFER} : CountOf(s, p) = CountOf(phases, p)}

\* zip(a, b): pairs up to the shorter length
Zip(a, b) == [k \in 1..Min(Len(a), Len(b)) |-> <<a[k], b[k]>>]

\* write_csv(file, rows): one line per row, replacing the file
WriteCsv(rows) == File([k \in 1..Len(rows) |-> <<rows[k][1], rows[k][2]>>])

\* the load branch taken as a create: the split file is written on every call
RandomlySplitAlwaysOverwrites(fl, pids, rt, overwrite, sf, shuffled) ==
    IF rt.kind # "pair"
    THEN [error |-> IF rt.kind = "None" THEN "TypeError" ELSE "ValueError",
          split_file |-> sf, partition_ids |-> pids]
    ELSE IF fl.none
    THEN [error |-> "TypeError", split_file |-> sf, partition_ids |-> pids]
    ELSE LET written == File([k \in 1..Min(Len(fl.rows), Len(shuffled)) |->
                                 <<fl.rows[k].cols[COLUMN_UNIQ_ID], shuffled[k]>>])
         IN  [error |-> "none", split_file |-> written,
              partition_ids |-> IF written.exists /\ written.lines # <<>>
                                THEN Table({COLUMN_UNIQ_ID, COLUMN_PHASE}, ReadCsv(written, COLUMN_PHASE))
                                ELSE pids]

\* a create that opens the split file for writing before it parses the
\* ratios: the file is left empty when the ratios are malformed or None
RandomlySplitOpensFileFirst(fl, pids, rt, overwrite, sf, shuffled) ==
    IF overwrite /\ rt.kind # "pair"
    THEN [error |-> IF rt.kind = "None" THEN "TypeError" ELSE "ValueError",
          split_file |-> File(<<>>), partition_ids |-> pids]
    ELSE IF overwrite /\ fl.none
    THEN [error |-> "TypeError", split_file |-> File(<<>>), partition_ids |-> pids]
    ELSE LET written == IF overwrite
                        THEN WriteCsv(Zip(SubjectIds(fl.rows), shuffled))
                        ELSE sf
         IN  [error |-> "none", split_file |-> written,
              partition_ids |-> IF written.exists /\ written.lines # <<>>
                                THEN Table({COLUMN_UNIQ_ID, COLUMN_PHASE}, ReadCsv(written, COLUMN_PHASE))
                                ELSE pids]

\* a create that keeps the table it has computed instead of reading the
\* written file back: the labels are paired with the subjects before the shuffle
RandomlySplitKeepsComputedTable(fl, pids, rt, overwrite, sf, shuffled) ==
    IF overwrite /\ rt.kind # "pair"
    THEN [error |-> IF rt.kind = "None" THEN "TypeError" ELSE "ValueError",
          split_file |-> sf, partition_ids |-> pids]
    ELSE IF overwrite /\ fl.none
    THEN [error |-> "TypeError", split_file |-> sf, partition_ids |-> pids]
    ELSE LET written == IF overwrite
                        THEN WriteCsv(Zip(SubjectIds(fl.rows), shuffled))
                        ELSE sf
             computed == WriteCsv(Zip(SubjectIds(fl.rows),
                                      SplitPhases(NumberOfSubjects(fl, pids, ALL), rt)))
             source == IF overwrite THEN computed ELSE written
         IN  [error |-> "none", split_file |-> written,
              partition_ids |-> IF source.exists /\ source.lines # <<>>
                                THEN Table({COLUMN_UNIQ_ID, COLUMN_PHASE}, ReadCsv(source, COLUMN_PHASE))
                                ELSE pids]

\* randomly_split_dataset(overwrite), entered with self._file_list = fl,
\* self._partition_ids = pids, self.ratios = rt and the split file sf;
\* shuffled is the outcome of random.shuffle
RandomlySplitDataset(fl, pids, rt, overwrite, sf, shuffled) ==
    IF overwrite /\ rt.kind # "pair"
    THEN [error |-> IF rt.kind = "None" THEN "TypeError" ELSE "ValueError",
          split_file |-> sf, partition_ids |-> pids]
    ELSE IF overwrite /\ fl.none
    THEN [error |-> "TypeError", split_file |-> sf, partition_ids |-> pids]
    ELSE LET written == IF overwrite
                        THEN WriteCsv(Zip(SubjectIds(fl.rows), shuffled))
                        ELSE sf
         IN  [error |-> "none", split_file |-> written,
              partition_ids |-> IF written.exists /\ written.lines # <<>>
                                THEN Table({COLUMN_UNIQ_ID, COLUMN_PHASE}, ReadCsv(written, COLUMN_PHASE))
                                ELSE pids]

\* the outcomes random.shuffle can have in this call
ShuffleOutcomes(fl, pids, rt, overwrite) ==
    IF overwrite /\ rt.kind = "pair"
    THEN Shuffles(SplitPhases(NumberOfSubjects(fl, pids, ALL), rt))
    ELSE {<<>>}

\* initialise that builds the new tables aside and installs them only when
\* both steps have succeeded
InitialiseAtomic(st, dp, np, rt, files, sf, shuffled) ==
    LET m == LoadDataSectionsBySubject(dp, files, NoneTable) IN
    IF m.error # "none"
    THEN [error |-> m.error, warnings |-> m.warnings, split_file |-> sf, st |-> st]
    ELSE LET s == RandomlySplitDataset(m.file_list, NoneTable, rt, np, sf, shuffled) IN
         IF s.error # "none"
         THEN [error |-> s.error, warnings |-> m.warnings, split_file |-> sf, st |-> st]
         ELSE [error |-> s.error, warnings |-> m.warnings, split_file |-> s.split_file,
               st |-> [data_param |-> dp, ratios |-> rt, new_partition |-> np,
                       file_list |-> m.file_list, partition_ids |-> s.partition_ids]]

\* initialise(data_param, new_partition, data_split_file, ratios) on the store
\* st = [data_param, ratios, new_partition, file_list, partition_ids], with the
\* section caches files and the split file sf
Initialise(st, dp, np, rt, files, sf, shuffled) ==
    LET m == LoadDataSectionsBySubject(dp, files, NoneTable) IN
    IF m.error # "none"
    THEN [error |-> m.error, warnings |-> m.warnings, split_file |-> sf,
          st |-> [data_param |-> dp, ratios |-> rt, new_partition |-> st.new_partition,
                  file_list |-> m.file_list, partition_ids |-> NoneTable]]
    ELSE LET s == RandomlySplitDataset(m.file_list, NoneTable, rt, np, sf, shuffled) IN
         [error |-> s.error, warnings |-> m.warnings, split_file |-> s.split_file,
          st |-> [data_param |-> dp, ratios |-> rt, new_partition |-> np,
                  file_list |-> m.file_list, partition_ids |-> s.partition_ids]]

-----------------------------------------------------------------------------
(* The store and its callers *)

Store == [data_param |-> data_param, ratios |-> ratios, new_partition |-> new_partition,
          file_list |-> file_list, partition_ids |-> partition_ids]

Returned(op, phase, section_names, overwrite, error, table, count, warnings) ==
    [op |-> op, phase |-> phase, section_names |-> section_names,
     overwrite |-> overwrite, error |-> error, table |-> table, count |-> count,
     warnings |-> warnings, summary |-> NoSummary]

NoCall == Returned("none", "", "", FALSE, "none", NoneTable, 0, <<>>)

\* the callers that share the store
Callers == 1..NumCallers

\* what a caller's call has produced: the exception raised, the table or the
\* count returned
Result(error, table, count) == [error |-> error, table |-> table, count |-> count]

\* a caller inside a query: pc is the source line it is about to run, tmp the
\* table held in a local
Caller(pc, op, phase, section_names, tmp, result) ==
    [pc |-> pc, op |-> op, phase |-> phase, section_names |-> section_names,
     tmp |-> tmp, result |-> result]

Idle == Caller("idle", "none", "", "", NoneTable, Result("none", NoneTable, 0))

\* a csv cache listing the subject ids in this order; the path of a line is
\* its line number
CsvOf(ids) == File([k \in 1..Len(ids) |-> <<ids[k], k>>])

\* the orders a dict of sections can have
DataParams ==
    {<<>>} \cup {<<a>> : a \in Sections}
           \cup {s \in {<<a, b>> : a \in Sections, b \in Sections} : s[1] # s[2]}

\* the section caches a session of the store is run on
StoreCsvFiles == {NoFile, CsvOf(<<1>>), CsvOf(<<2, 1>>), CsvOf(<<2, 2>>)}

\* the ratios a session of the store is given
StoreRatios == {NoneRatios, BadRatios, Ratios(0, 0), Ratios(1, 1)}

Init ==
    /\ csv_files \in [Sections -> StoreCsvFiles]
    /\ split_file \in {NoFile, File(<<>>)}
    /\ data_param = <<>>
    /\ ratios = NoneRatios
    /\ new_partition = FALSE
    /\ file_list = NoneTable
    /\ partition_ids = NoneTable
    /\ ret = NoCall
    /\ callers = [c \in Callers |-> Idle]

CallInitialise ==
    /\ ret.op = "none"
    /\ \E dp \in DataParams, np \in BOOLEAN, rt \in StoreRatios :
         LET m == LoadDataSectionsBySubject(dp, csv_files, NoneTable) IN
         \E shuffled \in ShuffleOutcomes(m.file_list, NoneTable, rt, np /\ m.error = "none") :
            LET r == Initialise(Store, dp, np, rt, csv_files, split_file, shuffled) IN
            /\ data_param' = r.st.data_param
            /\ ratios' = r.st.ratios
            /\ new_partition' = r.st.new_partition
            /\ file_list' = r.st.file_list
            /\ partition_ids' = r.st.partition_ids
            /\ split_file' = r.split_file
            /\ ret' = Returned("initialise", "", "", np, r.error, NoneTable, 0, r.warnings)
    /\ UNCHANGED csv_files
    /\ UNCHANGED callers

CallNumberOfSubjects ==
    /\ ret.op = "none"
    /\ \E phase \in SUPPORTED_PHASES :
         ret' = Returned("number_of_subjects", phase, "", FALSE, "none", NoneTable,
                         NumberOfSubjects(file_list, partition_ids, phase), <<>>)
    /\ UNCHANGED <<csv_files, split_file, data_param, ratios, new_partition,
                   file_list, partition_ids>>
    /\ UNCHANGED callers

CallGetFileList ==
    /\ ret.op = "none"
    /\ \E phase \in SUPPORTED_PHASES, section_names \in {""} \cup Sections :
         LET r == GetFileList(file_list, partition_ids, phase, section_names) IN
         /\ file_list' = r.file_list
         /\ ret' = Returned("get_file_list", phase, section_names, FALSE, r.error,
                            r.table, 0, <<>>)
    /\ UNCHANGED <<csv_files, split_file, data_param, ratios, new_partition, partition_ids>>
    /\ UNCHANGED callers

CallToString ==
    /\ ret.op = "none"
    /\ \E r \in to_string(file_list, partition_ids, ratios) :
         ret' = [Returned("to_string", "", "", FALSE, r.error, NoneTable, 0, <<>>)
                    EXCEPT !.summary = r.summary]
    /\ UNCHANGED <<csv_files, split_file, data_param, ratios, new_partition,
                   file_list, partition_ids>>
    /\ UNCHANGED callers

\* the caller takes the result; the store is ready for the next call
Return ==
    /\ ret.op # "none"
    /\ ret' = NoCall
    /\ UNCHANGED <<csv_files, split_file, data_param, ratios, new_partition,
                   file_list, partition_ids>>
    /\ UNCHANGED callers

Next == CallInitialise \/ CallNumberOfSubjects \/ CallGetFileList \/ CallToString \/ Return

Spec == Init /\ [][Next]_vars

-----------------------------------------------------------------------------
(* The merge on its own: load_data_sections_by_subject over every content  *)
(* of the section caches within the bounds                                 *)

SeqsUpTo(S, n) == UNION {[1..m -> S] : m \in 0..n}

MergeCsvFiles == {NoFile} \cup {CsvOf(ids) : ids \in SeqsUpTo(1..NumSubjects, MaxRows)}

MergeInit ==
    /\ csv_files \in [Sections -> MergeCsvFiles]
    /\ split_file = NoFile
    /\ data_param \in DataParams
    /\ ratios = NoneRatios
    /\ new_partition = FALSE
    /\ file_list = NoneTable
    /\ partition_ids = NoneTable
    /\ ret = NoCall
    /\ callers = [c \in Callers |-> Idle]

CallLoadDataSectionsBySubject ==
    /\ ret.op = "none"
    /\ LET m == LoadDataSectionsBySubject(data_param, csv_files, file_list) IN
       /\ file_list' = m.file_list
       /\ ret' = Returned("load_data_sections_by_subject", "", "", FALSE, m.error,
                          NoneTable, 0, m.warnings)
    /\ UNCHANGED <<csv_files, split_file, data_param, ratios, new_partition, partition_ids>>
    /\ UNCHANGED callers

MergeNext == CallLoadDataSectionsBySubject

MergeSpec == MergeInit /\ [][MergeNext]_vars

-----------------------------------------------------------------------------
(* The splitter on its own: randomly_split_dataset over every table size   *)
(* and ratio pair within the bounds                                        *)

\* a table of n subjects 1..n, one section
SubjectsTable(n) == Table({COLUMN_UNIQ_ID, "T1"}, [k \in 1..n |->
                       [idx |-> k - 1, cols |-> (COLUMN_UNIQ_ID :> k) @@ ("T1" :> k)]])

SplitRatios == {Ratios(v, i) : v \in -1..(RatioDen + 1), i \in -1..(RatioDen + 1)}

SplitInit ==
    /\ csv_files = [s \in Sections |-> NoFile]
    /\ split_file = NoFile
    /\ data_param = <<"T1">>
    /\ ratios \in SplitRatios
    /\ new_partition = FALSE
    /\ file_list \in {SubjectsTable(n) : n \in 0..MaxTotal}
    /\ partition_ids = NoneTable
    /\ ret = NoCall
    /\ callers = [c \in Callers |-> Idle]

CallRandomlySplitDataset ==
    /\ ret.op = "none"
    /\ \E overwrite \in BOOLEAN :
         \E shuffled \in ShuffleOutcomes(file_list, partition_ids, ratios, overwrite) :
            LET s == RandomlySplitDataset(file_list, partition_ids, ratios, overwrite,
                                          split_file, shuffled) IN
            /\ partition_ids' = s.partition_ids
            /\ split_file' = s.split_file
            /\ ret' = Returned("randomly_split_dataset", "", "", overwrite, s.error,
                               NoneTable, 0, <<>>)
    /\ UNCHANGED <<csv_files, data_param, ratios, new_partition, file_list>>
    /\ UNCHANGED callers

SplitNext == CallRandomlySplitDataset \/ CallNumberOfSubjects \/ Return

SplitSpec == SplitInit /\ [][SplitNext]_vars

-----------------------------------------------------------------------------
(* Several callers querying the store at once: every read and every write  *)
(* of self._file_list and self._partition_ids is a step of its own         *)

\* the section caches the shared store was initialised on
ConcurrentCsvFiles ==
    {f \in [Sections -> {NoFile, CsvOf(<<2, 1>>)}] : f["T1"].exists}

\* the ratios the shared store was initialised with
ConcurrentRatios == {NoneRatios, Ratios(0, 0)}

\* the section subsets the callers ask for: none, and one section
ConcurrentSectionNames == {"", "T1"}

\* the state after one initialise call on a new store has completed
ConcurrentInit ==
    /\ csv_files \in ConcurrentCsvFiles
    /\ \E dp \in DataParams, np \in BOOLEAN, rt \in ConcurrentRatios :
         LET m == LoadDataSectionsBySubject(dp, csv_files, NoneTable) IN
         \E shuffled \in ShuffleOutcomes(m.file_list, NoneTable, rt, np /\ m.error = "none") :
            LET new == [data_param |-> <<>>, ratios |-> NoneRatios, new_partition |-> FALSE,
                        file_list |-> NoneTable, partition_ids |-> NoneTable]
                r == Initialise(new, dp, np, rt, csv_files, NoFile, shuffled) IN
            /\ data_param = r.st.data_param
            /\ ratios = r.st.ratios
            /\ new_partition = r.st.new_partition
            /\ file_list = r.st.file_list
            /\ partition_ids = r.st.partition_ids
            /\ split_file = r.split_file
    /\ ret = NoCall
    /\ callers = [c \in Callers |-> Idle]

\* caller c moves to line pc
Goto(c, pc) == callers' = [callers EXCEPT ![c].pc = pc]

\* caller c moves to line pc with a local assigned
GotoWith(c, pc, tmp) == callers' = [callers EXCEPT ![c].pc = pc, ![c].tmp = tmp]

\* caller c's call ends with this result
Done(c, result) == callers' = [callers EXCEPT ![c].pc = "done", ![c].result = result]

Raise(c, error) == Done(c, Result(error, NoneTable, 0))

\* table[section_names] or the table itself
Selection(table, section_names) ==
    IF section_names # ""
    THEN Table({section_names}, Project(table.rows, {section_names}))
    ELSE table

\* a caller enters number_of_subjects(phase)
BeginNumberOfSubjects(c) ==
    /\ callers[c].pc = "idle"
    /\ \E phase \in SUPPORTED_PHASES :
         callers' = [callers EXCEPT ![c] =
                        Caller("n96", "number_of_subjects", phase, "", NoneTable, Idle.result)]
    /\ UNCHANGED <<csv_files, split_file, data_param, ratios, new_partition,
                   file_list, partition_ids, ret>>

\* a caller enters get_file_list(phase, section_names)
BeginGetFileList(c) ==
    /\ callers[c].pc = "idle"
    /\ \E phase \in SUPPORTED_PHASES, section_names \in ConcurrentSectionNames :
         callers' = [callers EXCEPT ![c] =
                        Caller("g108", "get_file_list", phase, section_names, NoneTable,
                               Idle.result)]
    /\ UNCHANGED <<csv_files, split_file, data_param, ratios, new_partition,
                   file_list, partition_ids, ret>>

\* line 96: if self._file_list is None: return 0
N96(c) ==
    /\ callers[c].pc = "n96"
    /\ IF file_list.none THEN Done(c, Result("none", NoneTable, 0)) ELSE Goto(c, "n99")
    /\ UNCHANGED <<csv_files, split_file, data_param, ratios, new_partition,
                   file_list, partition_ids, ret>>

\* line 99: if phase == ALL or self._partition_ids is None
N99(c) ==
    /\ callers[c].pc = "n99"
    /\ IF callers[c].phase = ALL \/ partition_ids.none
       THEN Goto(c, "n100") ELSE Goto(c, "n101")
    /\ UNCHANGED <<csv_files, split_file, data_param, ratios, new_partition,
                   file_list, partition_ids, ret>>

\* line 100: return self._file_list[COLUMN_UNIQ_ID].count()
N100(c) ==
    /\ callers[c].pc = "n100"
    /\ IF file_list.none THEN Raise(c, "TypeError")
       ELSE Done(c, Result("none", NoneTable, Len(file_list.rows)))
    /\ UNCHANGED <<csv_files, split_file, data_param, ratios, new_partition,
                   file_list, partition_ids, ret>>

\* line 101: selector = self._partition_ids[COLUMN_PHASE] == phase
N101(c) ==
    /\ callers[c].pc = "n101"
    /\ IF partition_ids.none THEN Raise(c, "TypeError")
       ELSE GotoWith(c, "n102",
                     Table(partition_ids.columns,
                           SelectSeq(partition_ids.rows,
                                     LAMBDA r: r.cols[COLUMN_PHASE] = callers[c].phase)))
    /\ UNCHANGED <<csv_files, split_file, data_param, ratios, new_partition,
                   file_list, partition_ids, ret>>

\* line 102: return self._partition_ids[selector].count()[COLUMN_UNIQ_ID]
N102(c) ==
    /\ callers[c].pc = "n102"
    /\ IF partition_ids.none THEN Raise(c, "TypeError")
       ELSE LET selector == {r.idx : r \in Range(callers[c].tmp.rows)} IN
            Done(c, Result("none", NoneTable,
                           Len(SelectSeq(partition_ids.rows, LAMBDA r: r.idx \in selector))))
    /\ UNCHANGED <<csv_files, split_file, data_param, ratios, new_partition,
                   file_list, partition_ids, ret>>

\* the line after the tests of get_file_list's arguments
AfterLookUp(c) == IF callers[c].phase = ALL THEN "g115" ELSE "g119"

\* line 108: if self._file_list is None: raise RuntimeError
G108(c) ==
    /\ callers[c].pc = "g108"
    /\ IF file_list.none THEN Raise(c, "RuntimeError")
       ELSE IF callers[c].section_names # "" THEN Goto(c, "g113")
       ELSE Goto(c, AfterLookUp(c))
    /\ UNCHANGED <<csv_files, split_file, data_param, ratios, new_partition,
                   file_list, partition_ids, ret>>

\* line 113: look_up_operations(section_names, set(self._file_list))
G113(c) ==
    /\ callers[c].pc = "g113"
    /\ IF file_list.none THEN Raise(c, "TypeError")
       ELSE IF ~KnownColumn(file_list, callers[c].section_names) THEN Raise(c, "ValueError")
       ELSE Goto(c, AfterLookUp(c))
    /\ UNCHANGED <<csv_files, split_file, data_param, ratios, new_partition,
                   file_list, partition_ids, ret>>

\* line 115, right-hand side: self._file_list.sort_index()
G115(c) ==
    /\ callers[c].pc = "g115"
    /\ IF file_list.none THEN Raise(c, "AttributeError")
       ELSE GotoWith(c, "g115w", Table(file_list.columns, SortIndex(file_list.rows)))
    /\ UNCHANGED <<csv_files, split_file, data_param, ratios, new_partition,
                   file_list, partition_ids, ret>>

\* line 115, assignment: self._file_list = <the sorted table>
G115w(c) ==
    /\ callers[c].pc = "g115w"
    /\ file_list' = callers[c].tmp
    /\ GotoWith(c, "g116", NoneTable)
    /\ UNCHANGED <<csv_files, split_file, data_param, ratios, new_partition,
                   partition_ids, ret>>

\* lines 116-118: return self._file_list[section_names] or self._file_list
G116(c) ==
    /\ callers[c].pc = "g116"
    /\ IF file_list.none
       THEN IF callers[c].section_names # "" THEN Raise(c, "TypeError")
            ELSE Done(c, Result("none", NoneTable, 0))
       ELSE Done(c, Result("none", Selection(file_list, callers[c].section_names), 0))
    /\ UNCHANGED <<csv_files, split_file, data_param, ratios, new_partition,
                   file_list, partition_ids, ret>>

\* line 119: if self._partition_ids is None: ... raise ValueError
G119(c) ==
    /\ callers[c].pc = "g119"
    /\ IF partition_ids.none THEN Raise(c, "ValueError") ELSE Goto(c, "g133")
    /\ UNCHANGED <<csv_files, split_file, data_param, ratios, new_partition,
                   file_list, partition_ids, ret>>

\* lines 133-139: selected = self._partition_ids[selector][[COLUMN_UNIQ_ID]];
\* if selected.empty: return None
G133(c) ==
    /\ callers[c].pc = "g133"
    /\ IF partition_ids.none THEN Raise(c, "TypeError")
       ELSE LET selector == SelectSeq(partition_ids.rows,
                                      LAMBDA r: r.cols[COLUMN_PHASE] = callers[c].phase)
                selected == Project(selector, {COLUMN_UNIQ_ID})
            IN  IF selected = <<>> THEN Done(c, Result("none", NoneTable, 0))
                ELSE GotoWith(c, "g140", Table({COLUMN_UNIQ_ID}, selected))
    /\ UNCHANGED <<csv_files, split_file, data_param, ratios, new_partition,
                   file_list, partition_ids, ret>>

\* lines 140-143: subset = pandas.merge(self._file_list, selected, ...);
\* return subset[section_names] or subset
G140(c) ==
    /\ callers[c].pc = "g140"
    /\ IF file_list.none THEN Raise(c, "TypeError")
       ELSE Done(c, Result("none",
                           Selection(Table(file_list.columns,
                                           PandasMerge(file_list.rows, callers[c].tmp.rows)),
                                     callers[c].section_names), 0))
    /\ UNCHANGED <<csv_files, split_file, data_param, ratios, new_partition,
                   file_list, partition_ids, ret>>

\* the caller takes its result and is free for its next call
TakeResult(c) ==
    /\ callers[c].pc = "done"
    /\ callers' = [callers EXCEPT ![c] = Idle]
    /\ UNCHANGED <<csv_files, split_file, data_param, ratios, new_partition,
                   file_list, partition_ids, ret>>

ConcurrentNext ==
    \E c \in Callers :
       \/ BeginNumberOfSubjects(c) \/ N96(c) \/ N99(c) \/ N100(c) \/ N101(c) \/ N102(c)
       \/ BeginGetFileList(c) \/ G108(c) \/ G113(c) \/ G115(c) \/ G115w(c) \/ G116(c)
       \/ G119(c) \/ G133(c) \/ G140(c)
       \/ TakeResult(c)

ConcurrentSpec == ConcurrentInit /\ [][ConcurrentNext]_vars

-----------------------------------------------------------------------------
(* Claims *)

\* the (subject_id, phase) pairs of a partition table, in row order
Assignment(pids) ==
    [k \in 1..Len(pids.rows) |->
        <<pids.rows[k].cols[COLUMN_UNIQ_ID], pids.rows[k].cols[COLUMN_PHASE]>>]

\* the subject ids a csv cache lists, in line order
ListedIds(file) == [k \in 1..Len(file.lines) |-> file.lines[k][1]]

FailedInitialiseStep == ret'.op = "initialise" /\ ret'.error # "none"
LoadStep == ret'.op = "initialise" /\ ~ret'.overwrite /\ ret'.error = "none"
CreateStep == ret'.op = "initialise" /\ ret'.overwrite /\ ret'.error = "none"

\* C1 as claimed: an initialise call that fails leaves FileTable and
\* PartitionTable as they were before the call.
C1_FailedInitialiseKeepsTables ==
    [][FailedInitialiseStep =>
          (file_list' = file_list /\ partition_ids' = partition_ids)]_vars

\* C1 amended: an initialise call that fails leaves PartitionTable absent and
\* the split file as it was, and leaves FileTable as the merge had it when the
\* call failed: absent for an empty section list or a missing first cache, the
\* first section's table for a missing second cache, the zero-row table for an
\* empty join, and the newly merged table when the split step fails.
C1_FailedInitialiseDiscardsTables ==
    [][FailedInitialiseStep =>
          /\ partition_ids' = NoneTable
          /\ split_file' = split_file
          /\ (data_param' = <<>> => file_list' = NoneTable)
          /\ (data_param' # <<>> /\ ~csv_files[data_param'[1]].exists
                => file_list' = NoneTable)
          /\ (Len(data_param') = 2 /\ csv_files[data_param'[1]].exists
                /\ ~csv_files[data_param'[2]].exists
                => /\ ~file_list'.none
                   /\ SubjectIds(file_list'.rows) = ListedIds(csv_files[data_param'[1]]))
          /\ (data_param' # <<>> /\ ret'.error = "IOError"
                /\ (\A k \in 1..Len(data_param') : csv_files[data_param'[k]].exists)
                => ~file_list'.none /\ file_list'.rows = <<>>)
          /\ (data_param' # <<>> /\ ret'.error \in {"TypeError", "ValueError"}
                => /\ ret'.overwrite
                   /\ ratios'.kind # "pair"
                   /\ ~file_list'.none
                   /\ Len(file_list'.rows) > 0)]_vars

\* a create had written a split, and a later initialise failed in its split
\* step: the new FileTable is in place and the PartitionTable is gone
C1_Witness ==
    /\ ret.op = "initialise" /\ ret.error = "TypeError"
    /\ split_file.exists /\ split_file.lines # <<>>
    /\ ~file_list.none
    /\ partition_ids.none

\* C2: an initialise with overwrite=False that succeeds leaves the split file
\* as it was, and when the previous initialise was such a load too, the
\* PartitionTable is the same after the second load as after the first.
C2_LoadIsIdempotent ==
    [][LoadStep =>
          /\ split_file' = split_file
          /\ (~new_partition /\ ~partition_ids.none => partition_ids' = partition_ids)]_vars

\* a load has returned a PartitionTable that names a subject the current
\* FileTable does not hold: the section configuration is not the split's
C2_Witness ==
    /\ ret.op = "initialise" /\ ~ret.overwrite /\ ret.error = "none"
    /\ ~partition_ids.none
    /\ Assignment(partition_ids) = split_file.lines
    /\ Range(SubjectIds(partition_ids.rows)) # Range(SubjectIds(file_list.rows))

\* C3: after a create the PartitionTable in memory is the rows of the split
\* file, and a load that follows a create gives the PartitionTable the create
\* gave.
C3_CreateThenLoadRoundTrip ==
    [][(ret'.op = "initialise" /\ ret'.error = "none") =>
          /\ (ret'.overwrite =>
                /\ ~partition_ids'.none
                /\ split_file'.exists
                /\ Assignment(partition_ids') = split_file'.lines
                /\ SubjectIds(partition_ids'.rows) = SubjectIds(file_list'.rows))
          /\ (~ret'.overwrite /\ new_partition /\ ~partition_ids.none =>
                /\ partition_ids' = partition_ids
                /\ split_file' = split_file)]_vars

\* a load has returned the split a create had shuffled: two phases in it
C3_Witness ==
    /\ ret.op = "initialise" /\ ~ret.overwrite /\ ret.error = "none"
    /\ ~partition_ids.none
    /\ Assignment(partition_ids) = split_file.lines
    /\ Cardinality(Range(Column(partition_ids.rows, COLUMN_PHASE))) >= 2

-----------------------------------------------------------------------------
(* Claims on the splitter, under SplitSpec: the split file exists only once *)
(* a create has written it                                                  *)

TotalN == Len(file_list.rows)
ClampedV == IF ratios.v < 0 THEN 0 ELSE IF ratios.v > RatioDen THEN RatioDen ELSE ratios.v
ClampedI == IF ratios.i < 0 THEN 0 ELSE IF ratios.i > RatioDen THEN RatioDen ELSE ratios.i

\* ceil(n * q / RatioDen) for 0 <= q <= RatioDen, by its defining inequalities
CeilOf(n, q) == CHOOSE c \in 0..n : c * RatioDen >= n * q /\ (c - 1) * RatioDen < n * q

NValid == CeilOf(TotalN, ClampedV)
NInfer == CeilOf(TotalN, ClampedI)
NTrain == TotalN - NValid - NInfer

\* the labels the split file holds, in line order
PersistedLabels == [k \in 1..Len(split_file.lines) |-> split_file.lines[k][2]]

\* C4: the labels a create persists are total_n labels, one per row of
\* FileTable, each train, validation or inference, the three counts summing to
\* total_n, also when v + i > 1.
C4_PersistedLabelsCoverTotal ==
    split_file.exists =>
       /\ Len(PersistedLabels) = TotalN
       /\ ListedIds(split_file) = SubjectIds(file_list.rows)
       /\ Range(PersistedLabels) \subseteq {TRAIN, VALID, INFER}
       /\ CountOf(PersistedLabels, TRAIN) + CountOf(PersistedLabels, VALID)
            + CountOf(PersistedLabels, INFER) = TotalN

\* a create with v + i > 1: the raw n_train is negative
C4_Witness ==
    /\ ret.op = "randomly_split_dataset" /\ ret.overwrite /\ ret.error = "none"
    /\ split_file.exists
    /\ TotalN >= 2
    /\ NTrain < 0
    /\ CountOf(PersistedLabels, VALID) > 0 /\ CountOf(PersistedLabels, INFER) > 0

\* C5: when ceil(total_n*v) + ceil(total_n*i) <= total_n a create assigns
\* ceil(total_n*v) subjects to validation, ceil(total_n*i) to inference and
\* the rest to train, and number_of_subjects answers with these counts.
C5_CountsAreCeilings ==
    (split_file.exists /\ NValid + NInfer <= TotalN) =>
       /\ CountOf(PersistedLabels, VALID) = NValid
       /\ CountOf(PersistedLabels, INFER) = NInfer
       /\ CountOf(PersistedLabels, TRAIN) = TotalN - NValid - NInfer
       /\ (ret.op = "number_of_subjects" /\ ret.phase = VALID => ret.count = NValid)
       /\ (ret.op = "number_of_subjects" /\ ret.phase = INFER => ret.count = NInfer)
       /\ (ret.op = "number_of_subjects" /\ ret.phase = TRAIN => ret.count = NTrain)

\* 4 subjects split with ratios (0.25, 0.25): number_of_subjects("validation")
\* has answered 1, and 2 subjects are train
C5_Witness ==
    /\ split_file.exists
    /\ TotalN = 4 /\ 4 * ratios.v = RatioDen /\ 4 * ratios.i = RatioDen
    /\ ret.op = "number_of_subjects" /\ ret.phase = VALID /\ ret.count = 1
    /\ CountOf(PersistedLabels, INFER) = 1
    /\ CountOf(PersistedLabels, TRAIN) = 2

\* C6: when the concatenation is longer than total_n, the persisted labels are
\* its first total_n elements: all train labels, then validation up to
\* min(n_valid, total_n - max(n_train, 0)), the rest inference.
C6_TruncationTrimsInferenceFirst ==
    (split_file.exists /\ Max(NTrain, 0) + NValid + NInfer > TotalN) =>
       /\ CountOf(PersistedLabels, TRAIN) = Max(NTrain, 0)
       /\ CountOf(PersistedLabels, VALID) = Min(NValid, TotalN - Max(NTrain, 0))
       /\ CountOf(PersistedLabels, INFER)
            = TotalN - CountOf(PersistedLabels, TRAIN) - CountOf(PersistedLabels, VALID)
       /\ CountOf(PersistedLabels, INFER) <= NInfer

\* a truncation that removed some but not all of the inference labels
C6_Witness ==
    /\ ret.op = "randomly_split_dataset" /\ ret.overwrite /\ ret.error = "none"
    /\ split_file.exists
    /\ Max(NTrain, 0) + NValid + NInfer > TotalN
    /\ CountOf(PersistedLabels, INFER) > 0
    /\ CountOf(PersistedLabels, INFER) < NInfer
    /\ CountOf(PersistedLabels, VALID) = NValid

-----------------------------------------------------------------------------
(* Claims on the merge, under MergeSpec *)

\* every section of data_param has a cache that read_csv can read
AllSectionsRead ==
    /\ data_param # <<>>
    /\ \A k \in 1..Len(data_param) :
          csv_files[data_param[k]].exists /\ csv_files[data_param[k]].lines # <<>>

\* the subject ids every section of data_param lists
CommonIds ==
    {id \in 1..NumSubjects :
        \A k \in 1..Len(data_param) : id \in Range(ListedIds(csv_files[data_param[k]]))}

\* C7: the merged FileTable holds exactly the subject ids present in every
\* section, and the merge of two sections that share k subject ids has exactly
\* k rows, one per common subject id.
C7_MergeKeepsCommonSubjects ==
    (ret.op = "load_data_sections_by_subject" /\ AllSectionsRead) =>
       /\ ~file_list.none
       /\ Range(SubjectIds(file_list.rows)) = CommonIds
       /\ (Len(data_param) = 2 => Len(file_list.rows) = Cardinality(CommonIds))

-----------------------------------------------------------------------------
(* Claims on the queries, under Spec *)

PhaseQuery ==
    /\ ret.op = "get_file_list"
    /\ ret.phase \in {TRAIN, VALID, INFER}
    /\ ret.section_names = ""

\* the cells of the rows of a table, without the index labels
Cells(rows) == {rows[k].cols : k \in 1..Len(rows)}

\* C8: get_file_list("all") returns the subjects of FileTable, in ascending
\* order of subject_id, whatever the order of the caches and whatever the
\* PartitionTable.
C8_AllIsSortedBySubjectId ==
    (ret.op = "get_file_list" /\ ret.phase = ALL /\ ret.section_names = ""
       /\ ret.error = "none") =>
       /\ ~ret.table.none
       /\ Len(ret.table.rows) = Len(file_list.rows)
       /\ Cells(ret.table.rows) = Cells(file_list.rows)
       /\ \A j, k \in 1..Len(ret.table.rows) :
             j < k => SubjectIds(ret.table.rows)[j] <= SubjectIds(ret.table.rows)[k]

\* the rows of FileTable whose subject_id the PartitionTable assigns phase p
RowsOfPhase(p) ==
    LET assigned == {a[1] : a \in {b \in Range(Assignment(partition_ids)) : b[2] = p}}
    IN  {r \in Cells(file_list.rows) : r[COLUMN_UNIQ_ID] \in assigned}

\* C9: with a PartitionTable present, get_file_list(p) returns the FileTable
\* rows whose subject_id is assigned phase p, and returns None whenever there
\* is no such row.
C9_PhaseSubsetOrNone ==
    (PhaseQuery /\ ~file_list.none /\ ~partition_ids.none) =>
       /\ ret.error = "none"
       /\ IF RowsOfPhase(ret.phase) = {}
          THEN ret.table.none
          ELSE ~ret.table.none /\ Cells(ret.table.rows) = RowsOfPhase(ret.phase)

\* the last initialise was a create with ratios (0.0, 0.0), and it succeeded
AfterCreateWithZeroRatios ==
    new_partition /\ ratios = Ratios(0, 0) /\ ~partition_ids.none

\* C10: after a create with ratios (0.0, 0.0), get_file_list("validation") and
\* get_file_list("inference") return None and get_file_list("train") returns
\* every subject of FileTable.
C10_ZeroRatiosAllTrain ==
    (AfterCreateWithZeroRatios /\ PhaseQuery) =>
       /\ ret.error = "none"
       /\ (ret.phase \in {VALID, INFER} => ret.table.none)
       /\ (ret.phase = TRAIN =>
             /\ ~ret.table.none
             /\ Cells(ret.table.rows) = Cells(file_list.rows))

\* get_file_list("train") has returned two subjects after such a create
C10_Witness ==
    /\ AfterCreateWithZeroRatios /\ PhaseQuery /\ ret.phase = TRAIN
    /\ ~ret.table.none
    /\ Cardinality(Range(SubjectIds(ret.table.rows))) = 2
    /\ Range(SubjectIds(ret.table.rows)) = Range(SubjectIds(file_list.rows))

-----------------------------------------------------------------------------
(* Counting *)

\* number_of_subjects has returned
CountQuery == ret.op = "number_of_subjects"

\* the rows of PartitionTable labelled with phase p
PartitionRowsOf(p) ==
    {k \in 1..Len(partition_ids.rows) : partition_ids.rows[k].cols[COLUMN_PHASE] = p}

\* C11 as stated: number_of_subjects(p) for p in {train, validation,
\* inference} is a fatal state error when FileTable is present and no
\* PartitionTable exists, and the number of PartitionTable rows with phase p
\* when it exists; number_of_subjects("all") is the FileTable row count in
\* every partition state; every call returns 0 when FileTable is absent.
C11_PhaseCountNeedsPartition ==
    CountQuery =>
       /\ file_list.none => (ret.error = "none" /\ ret.count = 0)
       /\ (~file_list.none /\ ret.phase = ALL) =>
             (ret.error = "none" /\ ret.count = Len(file_list.rows))
       /\ (~file_list.none /\ ret.phase # ALL /\ partition_ids.none) =>
             ret.error # "none"
       /\ (~file_list.none /\ ret.phase # ALL /\ ~partition_ids.none) =>
             (ret.error = "none" /\ ret.count = Cardinality(PartitionRowsOf(ret.phase)))

\* C11: number_of_subjects never fails: it returns 0 when FileTable is absent,
\* the FileTable row count for "all" and, when no PartitionTable exists, for
\* every other phase too, and the number of PartitionTable rows with phase p
\* when the PartitionTable exists.
C11_PhaseCountFallsBackToAll ==
    CountQuery =>
       /\ ret.error = "none"
       /\ file_list.none => ret.count = 0
       /\ (~file_list.none /\ (ret.phase = ALL \/ partition_ids.none)) =>
             ret.count = Len(file_list.rows)
       /\ (~file_list.none /\ ret.phase # ALL /\ ~partition_ids.none) =>
             ret.count = Cardinality(PartitionRowsOf(ret.phase))

\* number_of_subjects("validation") has answered 2, the FileTable row count,
\* while no PartitionTable exists
C11_Witness ==
    /\ CountQuery /\ ret.phase = VALID
    /\ ~file_list.none /\ partition_ids.none
    /\ Len(file_list.rows) = 2 /\ ret.count = 2

-----------------------------------------------------------------------------
(* Partitioning switched off *)

\* initialise has returned without error and was given ratios = None
InitialisedWithoutRatios ==
    ret.op = "initialise" /\ ret.error = "none" /\ ratios = NoneRatios

\* C12: after a successful initialise with ratios = None the PartitionTable is
\* absent whatever the split file holds, get_file_list("all") and
\* number_of_subjects("all") answer from FileTable, and get_file_list for
\* train, validation and inference ends in an error.
C12_NoRatiosDisablesPartitioning ==
    InitialisedWithoutRatios =>
       /\ partition_ids.none
       /\ LET r == GetFileList(file_list, partition_ids, ALL, "") IN
             r.error = "none" /\ ~r.table.none /\ Cells(r.table.rows) = Cells(file_list.rows)
       /\ NumberOfSubjects(file_list, partition_ids, ALL) = Len(file_list.rows)
       /\ \A p \in SUPPORTED_PHASES \ {ALL} :
             GetFileList(file_list, partition_ids, p, "").error # "none"

-----------------------------------------------------------------------------
(* The PartitionTable *)

THREE_PHASES == SUPPORTED_PHASES \ {ALL}

\* initialise has returned from a successful create
CreatedPartition == ret.op = "initialise" /\ ret.overwrite /\ ret.error = "none"

\* C13 as stated: a present PartitionTable maps each of its subject_ids to
\* exactly one phase in {train, validation, inference} and has at most
\* number_of_subjects("all") rows.
C13_PartitionWithinFileTable ==
    ~partition_ids.none =>
       /\ \A a \in Range(Assignment(partition_ids)) : a[2] \in THREE_PHASES
       /\ \A a, b \in Range(Assignment(partition_ids)) : a[1] = b[1] => a[2] = b[2]
       /\ Len(partition_ids.rows) <= NumberOfSubjects(file_list, partition_ids, ALL)

\* C13: a present PartitionTable is the split file row for row, every row
\* with one phase in {train, validation, inference}; right after a
\* successful create it has one row per FileTable row, for the subject of
\* that row.
C13_PartitionIsSplitFileVerbatim ==
    /\ ~partition_ids.none =>
          /\ split_file.exists /\ Assignment(partition_ids) = split_file.lines
          /\ \A a \in Range(Assignment(partition_ids)) : a[2] \in THREE_PHASES
    /\ CreatedPartition =>
          /\ ~partition_ids.none
          /\ SubjectIds(partition_ids.rows) = SubjectIds(file_list.rows)

\* a PartitionTable loaded from the split file of an earlier, larger FileTable
\* has more rows than FileTable
C13_Witness ==
    /\ ret.op = "initialise" /\ ~ret.overwrite /\ ret.error = "none"
    /\ ~partition_ids.none /\ ~file_list.none
    /\ Len(partition_ids.rows) = 2 /\ Len(file_list.rows) = 1

-----------------------------------------------------------------------------
(* The merged table *)

\* load_data_sections_by_subject has returned
MergeReturned == ret.op = "load_data_sections_by_subject"

\* C14: after every successful merge no two rows of FileTable have the same
\* subject_id, whatever the section caches list.
C14_SubjectIdsUnique ==
    (MergeReturned /\ ret.error = "none") =>
       \A j, k \in 1..Len(file_list.rows) :
          j # k => file_list.rows[j].cols[COLUMN_UNIQ_ID] # file_list.rows[k].cols[COLUMN_UNIQ_ID]

\* the subjects of the first section that the second section does not list:
\* the subjects the join of the second section excludes
ExcludedByJoin ==
    Range(ListedIds(csv_files[data_param[1]])) \ Range(ListedIds(csv_files[data_param[2]]))

\* C15: the join of a section emits a shrinkage warning naming that section
\* when it excludes at least one subject of the running table, and no warning
\* when it excludes none.
C15_NoSilentDrop ==
    (MergeReturned /\ AllSectionsRead /\ Len(data_param) = 2) =>
       ((data_param[2] \in Range(ret.warnings)) <=> (ExcludedByJoin # {}))

-----------------------------------------------------------------------------
(* Queries and the tables *)

\* a query returns in this step
QueryStep == ret'.op \in {"number_of_subjects", "get_file_list", "to_string"}

\* C17: number_of_subjects, get_file_list (every phase, every section subset,
\* also when it ends in an error or returns None) and to_string leave
\* FileTable and PartitionTable as they were.
C17_QueriesAreReadOnly ==
    [][QueryStep => (file_list' = file_list /\ partition_ids' = partition_ids)]_vars

\* get_file_list("all") has returned over a FileTable whose rows are not in
\* subject order, with a PartitionTable present
C17_Witness ==
    /\ ret.op = "get_file_list" /\ ret.phase = ALL /\ ret.error = "none"
    /\ SubjectIds(file_list.rows) = <<2, 1>>
    /\ ~partition_ids.none

-----------------------------------------------------------------------------
(* Failures of the merge *)

\* every section was read and no subject id is listed by all of them: the
\* merged table has zero rows after all joins
ZeroRowsAfterJoins == AllSectionsRead /\ CommonIds = {}

\* C18 as stated: the merge fails with an IOError in both cases, an empty
\* section list and a merged table of zero rows.
C18_MergeFailsWithIOError ==
    (MergeReturned /\ (data_param = <<>> \/ ZeroRowsAfterJoins)) => ret.error = "IOError"

\* C18: the merge never completes successfully in either case: it fails with
\* a ValueError when the section list is empty and with an IOError when the
\* merged table has zero rows after all joins.
C18_MergeFailsByCase ==
    MergeReturned =>
       /\ data_param = <<>> => ret.error = "ValueError"
       /\ ZeroRowsAfterJoins => ret.error = "IOError"

\* the merge has returned from an empty section list
C18_Witness ==
    MergeReturned /\ data_param = <<>> /\ ret.error = "ValueError" /\ file_list.none

-----------------------------------------------------------------------------
(* A create covers FileTable *)

\* the rows of PartitionTable for subject id
PartitionRowsFor(id) ==
    {k \in 1..Len(partition_ids.rows) : partition_ids.rows[k].cols[COLUMN_UNIQ_ID] = id}

\* C19: after an initialise that succeeds with overwrite=True the
\* PartitionTable contains every subject_id of FileTable exactly once and no
\* other subject_id, and number_of_subjects(train) + (validation) +
\* (inference) equals number_of_subjects("all").
C19_CreateCoversFileTableOnce ==
    CreatedPartition =>
       /\ ~partition_ids.none
       /\ \A id \in Range(SubjectIds(file_list.rows)) : Cardinality(PartitionRowsFor(id)) = 1
       /\ Range(SubjectIds(partition_ids.rows)) \subseteq Range(SubjectIds(file_list.rows))
       /\ NumberOfSubjects(file_list, partition_ids, TRAIN)
            + NumberOfSubjects(file_list, partition_ids, VALID)
            + NumberOfSubjects(file_list, partition_ids, INFER)
          = NumberOfSubjects(file_list, partition_ids, ALL)

-----------------------------------------------------------------------------
(* The split file *)

\* an initialise with overwrite=True returns without error, its ratios parsed
WritingStep ==
    ret'.op = "initialise" /\ ret'.overwrite /\ ret'.error = "none" /\ ratios'.kind = "pair"

\* C20: the split file changes only in an initialise call with overwrite=True
\* that gets past the parsing of its ratios: an initialise with
\* overwrite=False, an initialise with overwrite=True that fails on its ratios
\* or in the merge, and every query leave its contents or absence unchanged.
C20_OnlyCreateWritesSplitFile ==
    [][split_file' # split_file => WritingStep]_vars

\* an initialise with overwrite=True has failed on its ratios, after the merge,
\* and the split file still holds the lines of an earlier create
C20_Witness ==
    /\ ret.op = "initialise" /\ ret.overwrite /\ ret.error \in {"TypeError", "ValueError"}
    /\ ~file_list.none /\ ratios.kind # "pair"
    /\ split_file.exists /\ split_file.lines # <<>>

-----------------------------------------------------------------------------
(* Concurrent queries *)

\* what caller c's call returns when it runs alone on the store
SequentialResult(c) ==
    IF callers[c].op = "number_of_subjects"
    THEN Result("none", NoneTable,
                NumberOfSubjects(file_list, partition_ids, callers[c].phase))
    ELSE LET r == GetFileList(file_list, partition_ids, callers[c].phase,
                              callers[c].section_names)
         IN  Result(r.error, r.table, 0)

\* C16: with the store initialised and no initialise in flight, every
\* number_of_subjects and get_file_list call that several callers interleave
\* returns what it returns when run alone, and fails only when it fails alone.
C16_InterleavedQueriesAsSequential ==
    \A c \in Callers : callers[c].pc = "done" => callers[c].result = SequentialResult(c)

\* one caller has assigned the sorted table in get_file_list("all") and has
\* not returned yet; another has got the two train subjects meanwhile
C16_Witness ==
    \E c, d \in Callers :
       /\ callers[c].pc = "g116" /\ callers[c].op = "get_file_list"
       /\ callers[d].pc = "done" /\ callers[d].op = "get_file_list"
       /\ callers[d].phase = TRAIN /\ ~callers[d].result.table.none
       /\ Len(callers[d].result.table.rows) = 2

====
